---- MODULE Spec2Model ----
(***************************************************************************)
(* The play command of the music player (src/commands/player/play.ts):     *)
(* enqueue, enqueueQueries with its throttled progress message, and play,  *)
(* running as async functions on one event loop, for one guild.             *)
(*                                                                         *)
(* Session, the session registry, shuffleArray and getTracksFromQueries    *)
(* are modules of the repository whose code is not among the sources;      *)
(* they are modelled from the design document (sections 3 to 5).           *)
(* throttle is lodash's: debounce(func, wait, {leading, maxWait: wait,     *)
(* trailing}), modelled by its algorithm.                                  *)
(*                                                                         *)
(* Track.getVideoDetails is modelled from the design document as well      *)
(* (section 4.1).  The module also covers getUserFromAuthToken of the       *)
(* dashboard's auth middleware and getChatGptResponse of the chatgpt        *)
(* command, each for one key (one auth token; one user and guild).         *)
(*                                                                         *)
(* Time is counted in milliseconds and advances by ticks of ThrottleWait /  *)
(* TicksPerWait.  Ages are capped at ThrottleWait: the throttle only       *)
(* compares them with its wait.                                            *)
(***************************************************************************)
EXTENDS Integers, Sequences, FiniteSets, TLC

\* Number of play commands issued (each runs once).
NumCmds == 2
\* Number of search queries of a Spotify playlist or album (more than one).
NumQueries == 4
\* Number of tracks of a YouTube playlist.
ListLen == 3
\* Number of callers of getVideoDetails on one Track.
NumCallers == 4
\* Number of calls of getUserFromAuthToken with the auth token.
NumCalls == 3
\* Number of calls of getChatGptResponse by the user in the guild.
NumChats == 3
\* throttle(..., 5000): the wait, in milliseconds.
ThrottleWait == 5000
\* Granularity of the clock: the number of ticks in one throttle wait.
TicksPerWait == 2

VARIABLES
  sessions,   \* SessionRegistry for the guild: 0 (none) or the id of its Session
  created,    \* number of Session objects constructed so far
  queue,      \* queue[s]: Session s's queue, the tracks after the current one
  current,    \* current[s]: Session s's current track, or None
  shuffled,   \* shuffled[s]: Session s's shuffle flag
  cmd,        \* cmd[p]: the p-th invocation of play
  batch,      \* the call of enqueueQueries (at most one at a time)
  thr,        \* the state of throttledMessageUpdate
  notes,      \* the progress messages fired by throttledMessageUpdate: counts shown
  sinceNote,  \* milliseconds since the last such message (capped)
  added,      \* the tracks the batch passed to session.enqueue, in order
  details,    \* Track: the memoized video details of one Track
  lookups,    \* Track: the upstream lookups made for that Track
  caller,     \* caller[c]: a caller of getVideoDetails on that Track
  cache,      \* auth: the cache's entry for the token, whether a User is cached
  discordPromises, \* auth: discordPromises[auth], 0 (none) or a pair of requests
  requests,   \* auth: the pairs of Discord API requests issued, in order
  call,       \* call[c]: a call of getUserFromAuthToken with the token
  conversations,   \* chatgpt: the cached conversation of the user and guild
  chat        \* chat[c]: a call of getChatGptResponse by the user in the guild

playVars == <<sessions, created, queue, current, shuffled, cmd, batch, thr, notes,
              sinceNote, added>>
trackVars == <<details, lookups, caller>>
authVars == <<cache, discordPromises, requests, call>>
chatVars == <<conversations, chat>>

vars == <<playVars, trackVars, authVars, chatVars>>

\* The play command leaves the state of the other components alone.
PlayOnly == UNCHANGED <<trackVars, authVars, chatVars>>

Cmds == 1..NumCmds
SessIds == 1..NumCmds
None == 0
NoSession == 0

\* Track objects: the i-th track of command p.  None is JavaScript's undefined.
TrackOf(p, i) == p * 10 + i

Min(a, b) == IF a <= b THEN a ELSE b
Max(a, b) == IF a >= b THEN a ELSE b
Cap(a) == Min(a, ThrottleWait)

-----------------------------------------------------------------------------
(* Session and SessionRegistry                                             *)

\* Session.getCurrentTrack()
GetCurrentTrack(s) == current[s]

\* Session.isShuffled()
IsShuffled(s) == shuffled[s]

\* Session.enqueue(tracks, pushToFront): the queue and the current track after it.
\* The tracks go to the front (right after the current track) or to the tail;
\* when nothing was playing the head becomes current.
SessionEnqueue(q, cur, tracks, pushToFront) ==
  LET q1 == IF pushToFront THEN tracks \o q ELSE q \o tracks
  IN  IF cur = None /\ q1 # << >>
      THEN [queue |-> Tail(q1), current |-> Head(q1)]
      ELSE [queue |-> q1, current |-> cur]

\* shuffleArray(a) and Queue.shuffleRemaining(): every permutation of a.
ShuffleArray(a) ==
  { [i \in 1..Len(a) |-> a[f[i]]] : f \in Permutations(1..Len(a)) }

\* sessions.get(guild)
RegistryGet == sessions

\* sessions.create(channel): a new Session object, registered for the guild.
RegistryCreate == created + 1

\* The external teardown: playback has ended and the voice connection closed.
\* The Session leaves the registry; callers that hold it keep their reference.
Teardown ==
  /\ sessions # NoSession
  /\ current[sessions] = None
  /\ queue[sessions] = << >>
  /\ sessions' = NoSession
  /\ UNCHANGED <<created, queue, current, shuffled, cmd, batch, thr, notes,
                 sinceNote, added>>
  /\ PlayOnly

\* Queue.advance() at the end of a track: the head becomes current, or none.
Advance(s) ==
  /\ s <= created
  /\ current[s] # None
  /\ IF queue[s] = << >>
     THEN /\ current' = [current EXCEPT ![s] = None]
          /\ queue' = queue
     ELSE /\ current' = [current EXCEPT ![s] = Head(queue[s])]
          /\ queue' = [queue EXCEPT ![s] = Tail(queue[s])]
  /\ UNCHANGED <<sessions, created, shuffled, cmd, batch, thr, notes,
                 sinceNote, added>>
  /\ PlayOnly

-----------------------------------------------------------------------------
(* enqueue (play.ts)                                                       *)

\* A slip in the test of the current track: the negation.
WasPlayingAnythingNegated(cur) == cur = None

\* const wasPlayingAnything = Boolean(session.getCurrentTrack());
WasPlayingAnything(cur) == cur # None

\* The pushToFront argument of session.enqueue in enqueue.
EnqueueFrontArg(pushToFront) == pushToFront

\* enqueue, up to its first suspension: the read of the current track and
\* the call of session.enqueue, on a Session with queue q and current track cur.
EnqueueCall(q, cur, tracks, pushToFront) ==
  LET r == SessionEnqueue(q, cur, tracks, EnqueueFrontArg(pushToFront))
  IN  [was |-> WasPlayingAnything(cur), queue |-> r.queue, current |-> r.current]

\* A slip in the catch clause: the failure of getVideoDetails is thrown on.
EnqueueReplyRethrown(was, tracks, pushToFront, qlen, detailsOk) ==
  IF ~detailsOk THEN [kind |-> "error", n |-> 0]
  ELSE IF was /\ Len(tracks) > 1 THEN [kind |-> "queued", n |-> Len(tracks)]
  ELSE IF Len(tracks) > 1 THEN [kind |-> "nowPlayingQueued", n |-> Len(tracks) - 1]
  ELSE IF was THEN [kind |-> "position", n |-> IF pushToFront THEN 1 ELSE qlen]
  ELSE [kind |-> "nowPlaying", n |-> 0]

\* enqueue, after the awaits: the reply it returns.  tracks[0] is a Track.
EnqueueReply(was, tracks, pushToFront, qlen, detailsOk) ==
  IF ~detailsOk THEN [kind |-> "noDetails", n |-> 0]
  ELSE IF was /\ Len(tracks) > 1 THEN [kind |-> "queued", n |-> Len(tracks)]
  ELSE IF Len(tracks) > 1 THEN [kind |-> "nowPlayingQueued", n |-> Len(tracks) - 1]
  ELSE IF was THEN [kind |-> "position", n |-> IF pushToFront THEN 1 ELSE qlen]
  ELSE [kind |-> "nowPlaying", n |-> 0]

NoMsg == [kind |-> "none", n |-> 0]

-----------------------------------------------------------------------------
(* play (play.ts)                                                          *)

IdleCmd ==
  [pc |-> "idle", kind |-> "none", front |-> FALSE, shuffle |-> FALSE,
   sess |-> NoSession, tracks |-> << >>, was |-> FALSE, msg |-> NoMsg]

\* A slip in play: the option is not handed on.
PlayFrontArgDropped(pushToFront) == FALSE

\* The pushToFront that play hands to enqueue for a track or a track list.
PlayFrontArg(pushToFront) == pushToFront

\* A slip in play: the Session is created without looking at sessions.get.
PlaySessionAlwaysCreated == RegistryCreate

\* play from sessions.get to session.shuffle: the Session used, and whether
\* it was created.
PlaySession == IF RegistryGet # NoSession THEN RegistryGet ELSE RegistryCreate

\* A slip in the shuffle: the current track is shuffled with the queue.
PlayShuffleAll(s, shuffle) ==
  IF shuffle THEN {Tail(a) : a \in ShuffleArray(<< current[s] >> \o queue[s])}
  ELSE {queue[s]}

\* The queues session.shuffle() can leave (the flag is set by the caller).
PlayShuffle(s, shuffle) == IF shuffle THEN ShuffleArray(queue[s]) ELSE {queue[s]}

\* play with a Twitch VOD, a YouTube video or a livestream link: the Track is
\* built and enqueue called without any suspension after sessions.get.
PlayTrack(p, pushToFront, shuffle) ==
  /\ cmd[p].pc = "idle"
  /\ LET s == PlaySession
         tracks == << TrackOf(p, 1) >>
     IN  \E q0 \in PlayShuffle(s, shuffle) :
           LET e == EnqueueCall(q0, current[s], tracks, PlayFrontArg(pushToFront))
           IN  /\ sessions' = s
               /\ created' = IF RegistryGet = NoSession THEN created + 1 ELSE created
               /\ shuffled' = [shuffled EXCEPT ![s] = @ \/ shuffle]
               /\ queue' = [queue EXCEPT ![s] = e.queue]
               /\ current' = [current EXCEPT ![s] = e.current]
               /\ cmd' = [cmd EXCEPT ![p] =
                     [pc |-> "details", kind |-> "track", front |-> pushToFront,
                      shuffle |-> shuffle, sess |-> s, tracks |-> tracks,
                      was |-> e.was, msg |-> NoMsg]]
  /\ UNCHANGED <<batch, thr, notes, sinceNote, added>>
  /\ PlayOnly

\* play with a YouTube playlist or a Spotify playlist or album: suspended in
\* the parser after the Session was fetched or created (and shuffled).
PlayParse(p, kind, pushToFront, shuffle) ==
  /\ cmd[p].pc = "idle"
  /\ kind \in {"list", "batch"}
  /\ kind = "batch" => \A o \in Cmds : cmd[o].kind # "batch"
  /\ LET s == PlaySession
     IN  \E q0 \in PlayShuffle(s, shuffle) :
           /\ sessions' = s
           /\ created' = IF RegistryGet = NoSession THEN created + 1 ELSE created
           /\ shuffled' = [shuffled EXCEPT ![s] = @ \/ shuffle]
           /\ queue' = [queue EXCEPT ![s] = q0]
           /\ cmd' = [cmd EXCEPT ![p] =
                 [pc |-> "parsing", kind |-> kind, front |-> pushToFront,
                  shuffle |-> shuffle, sess |-> s, tracks |-> << >>,
                  was |-> FALSE, msg |-> NoMsg]]
  /\ UNCHANGED <<current, batch, thr, notes, sinceNote, added>>
  /\ PlayOnly

\* play rejected before the registry is consulted (no user, no voice channel,
\* channel not joinable), or called without arguments when the guild has no
\* Session.
PlayRejected(p, reason) ==
  /\ cmd[p].pc = "idle"
  /\ reason \in {"noUser", "noChannel", "notJoinable", "noArguments"}
  /\ reason = "noArguments" => RegistryGet = NoSession
  /\ cmd' = [cmd EXCEPT ![p] = [IdleCmd EXCEPT !.pc = "done", !.kind = "rejected",
                                  !.msg = [kind |-> reason, n |-> 0]]]
  /\ UNCHANGED <<sessions, created, queue, current, shuffled, batch, thr, notes,
                 sinceNote, added>>
  /\ PlayOnly

\* play with a link that is none of the supported kinds ('Invalid link.' is
\* thrown) or with a stream that is not a YouTube video ('Invalid YouTube
\* link.'): the link is looked at after the Session was fetched or created.
PlayInvalid(p, reply, shuffle) ==
  /\ cmd[p].pc = "idle"
  /\ reply \in {"invalidLink", "invalidYouTubeLink"}
  /\ LET s == PlaySession
     IN  \E q0 \in PlayShuffle(s, shuffle) :
           /\ sessions' = s
           /\ created' = IF RegistryGet = NoSession THEN created + 1 ELSE created
           /\ shuffled' = [shuffled EXCEPT ![s] = @ \/ shuffle]
           /\ queue' = [queue EXCEPT ![s] = q0]
           /\ cmd' = [cmd EXCEPT ![p] =
                 [IdleCmd EXCEPT !.pc = "done", !.kind = "invalid",
                    !.shuffle = shuffle, !.sess = s,
                    !.msg = [kind |-> reply, n |-> 0]]]
  /\ UNCHANGED <<current, batch, thr, notes, sinceNote, added>>
  /\ PlayOnly

\* play without arguments when the guild has a Session: 'Resumed.'
PlayResume(p, shuffle) ==
  /\ cmd[p].pc = "idle"
  /\ RegistryGet # NoSession
  /\ LET s == PlaySession
     IN  \E q0 \in PlayShuffle(s, shuffle) :
           /\ shuffled' = [shuffled EXCEPT ![s] = @ \/ shuffle]
           /\ queue' = [queue EXCEPT ![s] = q0]
           /\ cmd' = [cmd EXCEPT ![p] =
                 [IdleCmd EXCEPT !.pc = "done", !.kind = "resume",
                    !.shuffle = shuffle, !.sess = s,
                    !.msg = [kind |-> "resumed", n |-> 0]]]
  /\ UNCHANGED <<sessions, created, current, batch, thr, notes, sinceNote, added>>
  /\ PlayOnly

\* parseYoutubePlaylist returned: enqueue(session, tracks, pushToFront) up to
\* its first suspension.
EnqueueList(p) ==
  /\ cmd[p].pc = "parsing"
  /\ cmd[p].kind = "list"
  /\ LET s == cmd[p].sess
         tracks == [i \in 1..ListLen |-> TrackOf(p, i)]
         e == EnqueueCall(queue[s], current[s], tracks, PlayFrontArg(cmd[p].front))
     IN  /\ queue' = [queue EXCEPT ![s] = e.queue]
         /\ current' = [current EXCEPT ![s] = e.current]
         /\ cmd' = [cmd EXCEPT ![p].pc = "details", ![p].tracks = tracks,
                               ![p].was = e.was]
  /\ UNCHANGED <<sessions, created, shuffled, batch, thr, notes, sinceNote, added>>
  /\ PlayOnly

\* session.enqueue and tracks[0].getVideoDetails() settled: enqueue returns
\* its reply and play shows it.
EnqueueDetails(p, detailsOk) ==
  /\ cmd[p].pc = "details"
  /\ cmd[p].kind \in {"track", "list"}
  /\ cmd' = [cmd EXCEPT ![p].pc = "done",
               ![p].msg = EnqueueReply(cmd[p].was, cmd[p].tracks, cmd[p].front,
                                       Len(queue[cmd[p].sess]), detailsOk)]
  /\ UNCHANGED <<sessions, created, queue, current, shuffled, batch, thr, notes,
                 sinceNote, added>>
  /\ PlayOnly

-----------------------------------------------------------------------------
(* throttle(func, 5000) (lodash: leading and trailing edge, maxWait = wait) *)

\* lastArgs: a call is pending; lastCall, lastInvoke: milliseconds since
\* lastCallTime and lastInvokeTime (-1: lastCallTime undefined); timer:
\* milliseconds until timerExpired runs (-1: timerId undefined).
ThrottleInit ==
  [lastArgs |-> FALSE, lastCall |-> -1, lastInvoke |-> ThrottleWait, timer |-> -1]

\* shouldInvoke(time)
ShouldInvoke(t) ==
  \/ t.lastCall = -1
  \/ t.lastCall >= ThrottleWait
  \/ t.lastInvoke >= ThrottleWait

\* remainingWait(time)
RemainingWait(t) == Min(ThrottleWait - t.lastCall, ThrottleWait - t.lastInvoke)

\* invokeFunc(time): func runs now.
InvokeFunc(t) == [t EXCEPT !.lastArgs = FALSE, !.lastInvoke = 0]

\* A throttle without its trailing edge: a call inside the wait is forgotten.
ThrottleCallNoTrailing(t) ==
  LET t1 == [t EXCEPT !.lastCall = 0]
  IN  IF ShouldInvoke(t)
      THEN [thr |-> [InvokeFunc(t1) EXCEPT !.timer = ThrottleWait], invoked |-> TRUE]
      ELSE [thr |-> IF t.timer = -1 THEN [t1 EXCEPT !.timer = ThrottleWait] ELSE t1,
            invoked |-> FALSE]

\* The throttled function is called: its state after the call, and whether
\* func was invoked by it (on the leading edge, or in a tight loop).
ThrottleCall(t) ==
  LET t1 == [t EXCEPT !.lastArgs = TRUE, !.lastCall = 0]
  IN  IF ShouldInvoke(t)
      THEN [thr |-> [InvokeFunc(t1) EXCEPT !.timer = ThrottleWait], invoked |-> TRUE]
      ELSE [thr |-> IF t.timer = -1 THEN [t1 EXCEPT !.timer = ThrottleWait] ELSE t1,
            invoked |-> FALSE]

\* timerExpired(): the trailing edge invokes func when a call is pending.
ThrottleExpire(t) ==
  IF ShouldInvoke(t)
  THEN IF t.lastArgs
       THEN [thr |-> [InvokeFunc(t) EXCEPT !.timer = -1], invoked |-> TRUE]
       ELSE [thr |-> [t EXCEPT !.timer = -1], invoked |-> FALSE]
  ELSE [thr |-> [t EXCEPT !.timer = RemainingWait(t)], invoked |-> FALSE]

-----------------------------------------------------------------------------
(* enqueueQueries (play.ts)                                                *)

\* restQueries.length
RestLen == NumQueries - 1

NoBatch ==
  [pc |-> "none", owner |-> 0, sess |-> NoSession, order |-> << >>,
   first |-> "pending", res |-> [i \in 1..RestLen |-> "pending"],
   delivered |-> 0, await1 |-> 0, await0 |-> 0, numFetched |-> 0, msg |-> NoMsg]

\* if (session.isShuffled()) shuffleArray(queries): the order the queries are
\* resolved in, as indices into the list the parser returned.
QueryOrder(s) ==
  LET given == [i \in 1..NumQueries |-> i]
  IN  IF IsShuffled(s) THEN ShuffleArray(given) ELSE {given}

\* The Track the query at position i of the (shuffled) list resolves to.
BatchTrack(i) == TrackOf(batch.owner, batch.order[i])

\* The parser returned more than one query: enqueueQueries shuffles them when
\* the session is shuffled and looks the first one up.
BatchBegin(p) ==
  /\ cmd[p].pc = "parsing"
  /\ cmd[p].kind = "batch"
  /\ \E o \in QueryOrder(cmd[p].sess) :
       batch' = [NoBatch EXCEPT !.pc = "first", !.owner = p, !.sess = cmd[p].sess,
                                !.order = o]
  /\ cmd' = [cmd EXCEPT ![p].pc = "first"]
  /\ UNCHANGED <<sessions, created, queue, current, shuffled, thr, notes,
                 sinceNote, added>>
  /\ PlayOnly

\* getTracksFromQueries([firstQuery]) returned: [firstTrack], or [] when the
\* lookup failed; then enqueue(session, [firstTrack], false).  With firstTrack
\* undefined, tracks[0].getVideoDetails() throws in enqueue, error(tracks[0].link,
\* ...) throws in its catch clause, and enqueueQueries is rejected.
BatchFirst(ok) ==
  /\ batch.pc = "first"
  /\ LET s == batch.sess
         p == batch.owner
         tracks == << IF ok THEN BatchTrack(1) ELSE None >>
         e == EnqueueCall(queue[s], current[s], tracks, FALSE)
     IN  /\ queue' = [queue EXCEPT ![s] = e.queue]
         /\ current' = [current EXCEPT ![s] = e.current]
         /\ added' = added \o tracks
         /\ cmd' = [cmd EXCEPT ![p].pc = IF ok THEN "details" ELSE "rejected",
                               ![p].tracks = tracks, ![p].was = e.was]
         /\ batch' = [batch EXCEPT !.pc = IF ok THEN "details" ELSE "aborted",
                                   !.first = IF ok THEN "ok" ELSE "fail"]
  /\ UNCHANGED <<sessions, created, shuffled, thr, notes, sinceNote>>
  /\ PlayOnly

\* The message throttledMessageUpdate shows for numFetched = n.
ProgressMessage(n) ==
  IF n = 0 THEN [kind |-> "fetching", n |-> RestLen]
  ELSE IF n < RestLen THEN [kind |-> "partial", n |-> n]
  ELSE [kind |-> "final", n |-> n]

\* A slip in the count: -= for +=.
NumFetchedSubtracted(n, len) == n - len

\* A slip in the count: = for +=.
NumFetchedAssigned(n, len) == len

\* numFetched += newTracks.length
NumFetchedAfter(n, len) == n + len

\* enqueue returned the first track's reply: the first progress message is
\* shown, the throttled update is created, and getTracksFromQueries(restQueries,
\* callback) is started and not awaited.
BatchStart(detailsOk) ==
  /\ batch.pc = "details"
  /\ LET p == batch.owner
         m == EnqueueReply(cmd[p].was, cmd[p].tracks, FALSE,
                           Len(queue[batch.sess]), detailsOk)
     IN  /\ cmd' = [cmd EXCEPT ![p].pc = "done", ![p].msg = m]
         /\ batch' = [batch EXCEPT !.pc = "running", !.msg = m]
  /\ thr' = ThrottleInit
  /\ UNCHANGED <<sessions, created, queue, current, shuffled, notes, sinceNote,
                 added>>
  /\ PlayOnly

\* getTracksFromQueries: the lookup of rest query i completes, in any order;
\* a failed lookup yields no Track.
LookupDone(i, ok) ==
  /\ batch.pc = "running"
  /\ batch.res[i] = "pending"
  /\ batch' = [batch EXCEPT !.res[i] = IF ok THEN "ok" ELSE "fail"]
  /\ UNCHANGED <<sessions, created, queue, current, shuffled, cmd, thr, notes,
                 sinceNote, added>>
  /\ PlayOnly

\* getTracksFromQueries: the next rest query to hand to the callback, in the
\* order of the queries (0: none is ready).
NextReady ==
  IF /\ batch.pc = "running"
     /\ batch.delivered < RestLen
     /\ batch.res[batch.delivered + 1] # "pending"
  THEN batch.delivered + 1
  ELSE 0

\* The callback, up to its suspension: await session.enqueue(newTracks).
CallbackEnqueue ==
  /\ NextReady # 0
  /\ LET i == NextReady
         s == batch.sess
         newTracks == IF batch.res[i] = "ok" THEN << BatchTrack(i + 1) >> ELSE << >>
         r == SessionEnqueue(queue[s], current[s], newTracks, FALSE)
     IN  /\ queue' = [queue EXCEPT ![s] = r.queue]
         /\ current' = [current EXCEPT ![s] = r.current]
         /\ added' = added \o newTracks
         /\ batch' = [batch EXCEPT !.delivered = i,
                        !.await1 = IF newTracks # << >> THEN @ + 1 ELSE @,
                        !.await0 = IF newTracks = << >> THEN @ + 1 ELSE @]
  /\ UNCHANGED <<sessions, created, shuffled, cmd, thr, notes, sinceNote>>
  /\ PlayOnly

\* The callback, resumed: numFetched += newTracks.length and the call of
\* throttledMessageUpdate, which shows the message when the throttle invokes it.
CallbackCount(len) ==
  /\ batch.pc = "running"
  /\ IF len = 1 THEN batch.await1 > 0 ELSE batch.await0 > 0
  /\ LET n == NumFetchedAfter(batch.numFetched, len)
         c == ThrottleCall(thr)
     IN  /\ batch' = [batch EXCEPT !.numFetched = n,
                        !.await1 = IF len = 1 THEN @ - 1 ELSE @,
                        !.await0 = IF len = 0 THEN @ - 1 ELSE @]
         /\ thr' = c.thr
         /\ notes' = IF c.invoked THEN Append(notes, ProgressMessage(n)) ELSE notes
         /\ sinceNote' = IF c.invoked THEN 0 ELSE sinceNote
  /\ UNCHANGED <<sessions, created, queue, current, shuffled, cmd, added>>
  /\ PlayOnly

\* The throttle's timer fires.
TimerExpired ==
  /\ thr.timer = 0
  /\ LET c == ThrottleExpire(thr)
     IN  /\ thr' = c.thr
         /\ notes' = IF c.invoked THEN Append(notes, ProgressMessage(batch.numFetched))
                     ELSE notes
         /\ sinceNote' = IF c.invoked THEN 0 ELSE sinceNote
  /\ UNCHANGED <<sessions, created, queue, current, shuffled, cmd, batch, added>>
  /\ PlayOnly

\* The length of a tick of the clock.
TickMs == ThrottleWait \div TicksPerWait

\* A tick passes.  A timer that is due runs first.
Tick ==
  /\ batch.pc = "running"
  /\ thr.timer # 0
  /\ thr' = [thr EXCEPT !.lastCall = IF @ = -1 THEN -1 ELSE Cap(@ + TickMs),
                        !.lastInvoke = Cap(@ + TickMs),
                        !.timer = IF @ > 0 THEN Max(@ - TickMs, 0) ELSE @]
  /\ sinceNote' = Cap(sinceNote + TickMs)
  /\ UNCHANGED <<sessions, created, queue, current, shuffled, cmd, batch, notes,
                 added>>
  /\ PlayOnly

-----------------------------------------------------------------------------
(* Track.getVideoDetails (design document, section 4.1)                    *)

Callers == 1..NumCallers

\* A memo that is set only when the lookup completes: a call during the
\* lookup starts another one.
GetVideoDetailsUnshared(d) ==
  IF d \in {"none", "pending"} THEN [details |-> "pending", lookup |-> TRUE]
  ELSE [details |-> d, lookup |-> FALSE]

\* getVideoDetails() called on a Track whose memo is d ("none", "pending",
\* "ok" or "fail"): the memo after the call, and whether an upstream lookup
\* is started by it.
GetVideoDetails(d) ==
  IF d = "none" THEN [details |-> "pending", lookup |-> TRUE]
  ELSE [details |-> d, lookup |-> FALSE]

\* await tracks[0].getVideoDetails() in enqueue, or any other caller: the call.
\* A caller that finds the details or the failure cached gets it at once.
DetailsCall(c) ==
  /\ caller[c] = "idle"
  /\ LET g == GetVideoDetails(details)
     IN  /\ details' = g.details
         /\ lookups' = IF g.lookup THEN lookups + 1 ELSE lookups
         /\ caller' = [caller EXCEPT ![c] =
               IF g.details = "pending" THEN "waiting" ELSE g.details]
  /\ UNCHANGED <<playVars, authVars, chatVars>>

\* The upstream lookup completes: its result or its failure is cached.
DetailsLookupDone(ok) ==
  /\ details = "pending"
  /\ details' = IF ok THEN "ok" ELSE "fail"
  /\ UNCHANGED <<lookups, caller, playVars, authVars, chatVars>>

\* A caller that awaited the lookup in flight gets its result.
DetailsResume(c) ==
  /\ caller[c] = "waiting"
  /\ details \in {"ok", "fail"}
  /\ caller' = [caller EXCEPT ![c] = details]
  /\ UNCHANGED <<details, lookups, playVars, authVars, chatVars>>

InitTrack ==
  /\ details = "none"
  /\ lookups = 0
  /\ caller = [c \in Callers |-> "idle"]

NextTrack ==
  \/ \E c \in Callers : DetailsCall(c)
  \/ \E ok \in BOOLEAN : DetailsLookupDone(ok)
  \/ \E c \in Callers : DetailsResume(c)

-----------------------------------------------------------------------------
(* getUserFromAuthToken (auth middleware), for one auth token              *)

Calls == 1..NumCalls
NoRequests == 0

IdleCall == [pc |-> "idle", awaits |-> NoRequests]

\* Promise.all over a pair of requests: rejected as soon as one is rejected,
\* fulfilled when both are fulfilled.
PromiseAll(r) ==
  IF r.user = "fail" \/ r.guilds = "fail" THEN "rejected"
  ELSE IF r.user = "ok" /\ r.guilds = "ok" THEN "fulfilled"
  ELSE "pending"

\* A call whose await has settled resumes before any new call, response or
\* timer is handled.
AuthResumable(c) ==
  /\ call[c].pc = "awaiting"
  /\ PromiseAll(requests[call[c].awaits]) # "pending"

AuthMicrotasks == \E c \in Calls : AuthResumable(c)

\* A slip in the test of the stored promises: new requests for every call.
IssuesRequestsAlways(entry) == TRUE

\* if (!discordPromises[auth]): the call issues the two requests.
IssuesRequests(entry) == entry = NoRequests

\* getUserFromAuthToken(auth) up to its await: a cached User is returned;
\* otherwise the requests are issued unless a pair is stored, and the call
\* awaits Promise.all of the stored pair.
GetUserFromAuthToken(c) ==
  /\ call[c].pc = "idle"
  /\ ~AuthMicrotasks
  /\ IF cache
     THEN /\ call' = [call EXCEPT ![c].pc = "returned"]
          /\ UNCHANGED <<discordPromises, requests>>
     ELSE /\ IF IssuesRequests(discordPromises)
             THEN /\ requests' = Append(requests, [user |-> "pending",
                                                   guilds |-> "pending"])
                  /\ discordPromises' = Len(requests) + 1
             ELSE UNCHANGED <<discordPromises, requests>>
          /\ call' = [call EXCEPT ![c] = [pc |-> "awaiting",
                                          awaits |-> discordPromises']]
  /\ UNCHANGED <<cache, playVars, trackVars, chatVars>>

\* Discord answers one of the requests of pair g, or the request fails.
DiscordResponse(g, which, ok) ==
  /\ ~AuthMicrotasks
  /\ g \in 1..Len(requests)
  /\ requests[g][which] = "pending"
  /\ requests' = [requests EXCEPT ![g][which] = IF ok THEN "ok" ELSE "fail"]
  /\ UNCHANGED <<cache, discordPromises, call, playVars, trackVars, chatVars>>

\* getUserFromAuthToken after its await: with both responses the User is
\* cached, discordPromises[auth] deleted and the User returned; a rejection
\* is thrown to the caller (authMiddleware answers 401).
AuthResume(c) ==
  /\ AuthResumable(c)
  /\ IF PromiseAll(requests[call[c].awaits]) = "fulfilled"
     THEN /\ cache' = TRUE
          /\ discordPromises' = NoRequests
          /\ call' = [call EXCEPT ![c].pc = "returned"]
     ELSE /\ call' = [call EXCEPT ![c].pc = "thrown"]
          /\ UNCHANGED <<cache, discordPromises>>
  /\ UNCHANGED <<requests, playVars, trackVars, chatVars>>

\* clearCache(auth), or the entry's time to live (stdTTL) runs out.
ClearCache ==
  /\ ~AuthMicrotasks
  /\ cache
  /\ cache' = FALSE
  /\ UNCHANGED <<discordPromises, requests, call, playVars, trackVars, chatVars>>

InitAuth ==
  /\ cache = FALSE
  /\ discordPromises = NoRequests
  /\ requests = << >>
  /\ call = [c \in Calls |-> IdleCall]

NextAuth ==
  \/ \E c \in Calls : GetUserFromAuthToken(c)
  \/ \E g \in 1..NumCalls, which \in {"user", "guilds"}, ok \in BOOLEAN :
       DiscordResponse(g, which, ok)
  \/ \E c \in Calls : AuthResume(c)
  \/ ClearCache

-----------------------------------------------------------------------------
(* getChatGptResponse (chatgpt.ts), for one user in one guild, with the    *)
(* conversation cache configured                                           *)

Chats == 1..NumChats

IdleChat == [pc |-> "idle", sent |-> << >>, got |-> FALSE]

\* { role: 'user', content: query } of call c, and the responseMessage to it.
QueryOf(c) == [role |-> "user", of |-> c]
ResponseTo(c) == [role |-> "assistant", of |-> c]

\* The call starts: await rateLimiter.attempt({ userId, guildId }).
ChatAttempt(c) ==
  /\ chat[c].pc = "idle"
  /\ chat' = [chat EXCEPT ![c].pc = "attempting"]
  /\ UNCHANGED <<conversations, playVars, trackVars, authVars>>

\* rateLimiter.attempt throws: the call is rate limited.
ChatLimited(c) ==
  /\ chat[c].pc = "attempting"
  /\ chat' = [chat EXCEPT ![c].pc = "limited"]
  /\ UNCHANGED <<conversations, playVars, trackVars, authVars>>

\* The cached conversation is read and sent with the query:
\* await openai.createChatCompletion(...).
ChatRequest(c) ==
  /\ chat[c].pc = "attempting"
  /\ chat' = [chat EXCEPT ![c].pc = "completing",
                          ![c].sent = Append(conversations, QueryOf(c))]
  /\ UNCHANGED <<conversations, playVars, trackVars, authVars>>

\* A slip in the update: the conversation read before the request is extended.
ConversationBaseStale(sent, cached) == SubSeq(sent, 1, Len(sent) - 1)

\* The conversation the update extends: read again from the cache after the
\* request (sent is the conversation read before it, with the query).
ConversationBase(sent, cached) == cached

\* The request is over: it failed (the call throws), or it returned, with or
\* without a message; with a message, the conversation is read again and
\* stored with the query and the response appended.
ChatCompletion(c, outcome) ==
  /\ chat[c].pc = "completing"
  /\ outcome \in {"message", "noMessage", "error"}
  /\ IF outcome = "message"
     THEN /\ conversations' = ConversationBase(chat[c].sent, conversations)
                                \o << QueryOf(c), ResponseTo(c) >>
          /\ chat' = [chat EXCEPT ![c].pc = "done", ![c].got = TRUE]
     ELSE /\ chat' = [chat EXCEPT ![c].pc =
                         IF outcome = "error" THEN "failed" ELSE "done"]
          /\ UNCHANGED conversations
  /\ UNCHANGED <<playVars, trackVars, authVars>>

InitChat ==
  /\ conversations = << >>
  /\ chat = [c \in Chats |-> IdleChat]

NextChat ==
  \/ \E c \in Chats : ChatAttempt(c)
  \/ \E c \in Chats : ChatLimited(c)
  \/ \E c \in Chats : ChatRequest(c)
  \/ \E c \in Chats, o \in {"message", "noMessage", "error"} : ChatCompletion(c, o)

-----------------------------------------------------------------------------

Init ==
  /\ sessions = NoSession
  /\ created = 0
  /\ queue = [s \in SessIds |-> << >>]
  /\ current = [s \in SessIds |-> None]
  /\ shuffled = [s \in SessIds |-> FALSE]
  /\ cmd = [p \in Cmds |-> IdleCmd]
  /\ batch = NoBatch
  /\ thr = ThrottleInit
  /\ notes = << >>
  /\ sinceNote = ThrottleWait
  /\ added = << >>
  /\ InitTrack
  /\ InitAuth
  /\ InitChat

Next ==
  \/ \E p \in Cmds, f \in BOOLEAN : PlayTrack(p, f, FALSE)
  \/ \E p \in Cmds, k \in {"list", "batch"}, f \in BOOLEAN : PlayParse(p, k, f, FALSE)
  \/ \E p \in Cmds : EnqueueList(p)
  \/ \E p \in Cmds, ok \in BOOLEAN : EnqueueDetails(p, ok)
  \/ \E p \in Cmds : BatchBegin(p)
  \/ \E ok \in BOOLEAN : BatchFirst(ok)
  \/ \E ok \in BOOLEAN : BatchStart(ok)
  \/ \E i \in 1..RestLen, ok \in BOOLEAN : LookupDone(i, ok)
  \/ CallbackEnqueue
  \/ \E len \in {0, 1} : CallbackCount(len)
  \/ \E s \in SessIds : Advance(s)
  \/ Teardown

\* Concurrent play commands without the shuffle option, their Session and the
\* pipeline, all within one tick of the clock.
Spec == Init /\ [][Next]_vars

\* The steps of a resolution batch after the play command that starts it.
BatchSteps ==
  \/ BatchBegin(1)
  \/ \E ok \in BOOLEAN : BatchFirst(ok)
  \/ \E ok \in BOOLEAN : BatchStart(ok)
  \/ \E i \in 1..RestLen, ok \in BOOLEAN : LookupDone(i, ok)
  \/ CallbackEnqueue
  \/ \E len \in {0, 1} : CallbackCount(len)
  \/ TimerExpired
  \/ Tick
  \/ \E s \in SessIds : Advance(s)
  \/ Teardown

NextBatch ==
  \/ \E f \in BOOLEAN : PlayParse(1, "batch", f, FALSE)
  \/ BatchSteps

\* One playlist command without the shuffle option and its resolution batch,
\* with the clock running.
SpecBatch == Init /\ [][NextBatch]_vars

NextShuffle ==
  \/ \E f \in BOOLEAN, sh \in BOOLEAN : PlayParse(1, "batch", f, sh)
  \/ BatchSteps

\* The same with the shuffle option.
SpecShuffle == Init /\ [][NextShuffle]_vars

NextPlay ==
  \/ \E p \in Cmds, f \in BOOLEAN, sh \in BOOLEAN : PlayTrack(p, f, sh)
  \/ \E p \in Cmds, f \in BOOLEAN, sh \in BOOLEAN : PlayParse(p, "list", f, sh)
  \/ \E p \in Cmds : EnqueueList(p)
  \/ \E p \in Cmds, ok \in BOOLEAN : EnqueueDetails(p, ok)
  \/ \E p \in Cmds,
        reason \in {"noUser", "noChannel", "notJoinable", "noArguments"} :
       PlayRejected(p, reason)
  \/ \E p \in Cmds, reply \in {"invalidLink", "invalidYouTubeLink"},
        sh \in BOOLEAN : PlayInvalid(p, reply, sh)
  \/ \E p \in Cmds, sh \in BOOLEAN : PlayResume(p, sh)
  \/ \E s \in SessIds : Advance(s)
  \/ Teardown

\* Concurrent play commands of every outcome, with the shuffle option, for
\* tracks and track lists.
SpecPlay == Init /\ [][NextPlay]_vars

\* The callers of getVideoDetails on one Track.
SpecTrack == Init /\ [][NextTrack]_vars

\* The calls of getUserFromAuthToken with one auth token.
SpecAuth == Init /\ [][NextAuth]_vars

\* The calls of getChatGptResponse by one user in one guild.
SpecChat == Init /\ [][NextChat]_vars

-----------------------------------------------------------------------------
(* Properties                                                              *)

\* Command p calls enqueue in this step: it runs up to the suspension in
\* session.enqueue.
EnqueueStep(p) ==
  /\ cmd[p].pc \in {"idle", "parsing", "first"}
  /\ cmd'[p].pc \in {"details", "rejected"}

\* C1: every call of enqueue, whatever other enqueues (of another command or of
\* the pipeline's callback) ran before it, observes wasPlayingAnything = false
\* exactly when its Session had no current track, hence false for the first
\* call on a Session and true for every later call made while a track is
\* current; and the first track of the first enqueue on an empty Session
\* becomes the current track.
C1_FirstEnqueueBecomesCurrent ==
  [][\A p \in Cmds :
       EnqueueStep(p) =>
         LET s == cmd'[p].sess
         IN  /\ cmd'[p].was = (current[s] # None)
             /\ (current[s] = None /\ queue[s] = << >>)
                  => /\ current'[s] = cmd'[p].tracks[1]
                     /\ ~cmd'[p].was]_vars

\* A playlist command and a track command have enqueued on the same Session,
\* and so has the callback: the first call saw nothing playing and its track
\* became current, the second saw a track playing.
C1_Witness ==
  /\ cmd[1].kind = "batch" /\ cmd[1].pc = "done"
  /\ cmd[2].kind = "track" /\ cmd[2].pc = "details"
  /\ cmd[1].sess = cmd[2].sess
  /\ ~cmd[1].was /\ cmd[2].was
  /\ current[cmd[1].sess] = cmd[1].tracks[1]
  /\ batch.delivered > 0

\* C2 as stated: whatever the input kind, an enqueue of play made while a track
\* is current puts the tracks right after the current track when pushToFront
\* is set, and at the tail otherwise.
C2_FrontForEveryKind ==
  [][\A p \in Cmds :
       (EnqueueStep(p) /\ cmd'[p].was) =>
         LET s == cmd'[p].sess
         IN  queue'[s] = IF cmd'[p].front THEN cmd'[p].tracks \o queue[s]
                         ELSE queue[s] \o cmd'[p].tracks]_vars

\* An enqueue of a track or a track list goes where pushToFront says; the
\* first track of a multi-query playlist or album goes to the tail.
PlacedByKind ==
  \A p \in Cmds :
    (EnqueueStep(p) /\ cmd'[p].was) =>
      LET s == cmd'[p].sess
      IN  queue'[s] = IF cmd'[p].front /\ cmd'[p].kind # "batch"
                      THEN cmd'[p].tracks \o queue[s]
                      ELSE queue[s] \o cmd'[p].tracks

\* The tracks the callback of enqueueQueries enqueues go to the tail.
CallbackAtTail ==
  (batch'.delivered # batch.delivered /\ current[batch.sess] # None)
    => queue'[batch.sess] =
         queue[batch.sess] \o SubSeq(added', Len(added) + 1, Len(added'))

\* C2, amended: while a track is current, the tracks of a track or a track
\* list go right after the current track when pushToFront is set and to the
\* tail otherwise; the tracks of a multi-query playlist or album
\* (enqueueQueries: the first track and the tracks of the callback) go to the
\* tail whatever pushToFront is.
C2_FrontExceptQueries == [][PlacedByKind /\ CallbackAtTail]_vars

\* A playlist command with pushToFront set whose first track went to the tail,
\* behind the track a track-list command had queued.
C2_Witness ==
  \E p, o \in Cmds :
    /\ cmd[p].kind = "list" /\ cmd[p].sess = cmd[o].sess
    /\ cmd[o].kind = "batch" /\ cmd[o].front /\ cmd[o].was /\ cmd[o].pc = "details"
    /\ queue[cmd[o].sess] = << cmd[p].tracks[ListLen], cmd[o].tracks[1] >>

\* Every rest query has been handed to the callback.
AllDelivered == batch.pc = "running" /\ batch.delivered = RestLen

\* Every call of the callback has run to its end.
AllCounted == AllDelivered /\ batch.await1 = 0 /\ batch.await0 = 0

\* The rest queries whose lookup failed, and all the queries whose lookup failed.
FailedRest == Cardinality({i \in 1..RestLen : batch.res[i] = "fail"})
Failed == FailedRest + (IF batch.first = "fail" THEN 1 ELSE 0)

\* The queries that resolved, as indices into the list the parser returned.
Resolved ==
  {batch.order[i + 1] : i \in {j \in 1..RestLen : batch.res[j] = "ok"}}
    \cup (IF batch.first = "ok" THEN {batch.order[1]} ELSE {})

RECURSIVE InQueryOrder(_, _)
\* The tracks of the queries of S among the first n, in the order of the queries.
InQueryOrder(S, n) ==
  IF n = 0 THEN << >>
  ELSE InQueryOrder(S, n - 1)
         \o (IF n \in S THEN << TrackOf(batch.owner, n) >> ELSE << >>)

IsTrack(t) == t # None

\* C3 as stated: when a batch of N queries is over with K failed lookups, the
\* tracks it added to the queue are N - K, in the original order of their
\* queries.
C3_ResolvedInQueryOrder ==
  (batch.pc = "aborted" \/ AllDelivered) =>
     /\ Len(SelectSeq(added, IsTrack)) = NumQueries - Failed
     /\ SelectSeq(added, IsTrack) = InQueryOrder(Resolved, NumQueries)

\* The final messages ("Queued n tracks from YouTube.") shown so far.
FinalNotes == SelectSeq(notes, LAMBDA m : m.kind = "final")

\* C4 as stated: when the batch handed to the pipeline (N queries, K failed)
\* is over and no update is pending, the final message was shown exactly once,
\* with N - K tracks.
C4_FinalReportOnce ==
  (AllCounted /\ ~thr.lastArgs) =>
     /\ Len(FinalNotes) = 1
     /\ FinalNotes[1].n = RestLen - FailedRest

\* C5 as stated: a failed lookup, at any position, never aborts the batch.
C5_NoLookupFailureAborts == Failed > 0 => batch.pc # "aborted"

\* The last message shown is the one for the present count.
ShowsCount == notes # << >> /\ notes[Len(notes)] = ProgressMessage(batch.numFetched)

ShownOrPending ==
  AllCounted => (ShowsCount \/ (thr.lastArgs /\ thr.timer \in 0..ThrottleWait))

\* When the timer expires with a call pending, the message is shown.
PendingShownAtExpiry ==
  (thr.timer = 0 /\ thr'.timer = -1 /\ thr.lastArgs)
    => notes' = Append(notes, ProgressMessage(batch.numFetched))

C7_OneNotePerWait ==
  [][(/\ Len(notes') > Len(notes)
      /\ notes # << >>
      /\ notes[Len(notes)].kind # "final"
      /\ notes'[Len(notes')].kind # "final")
       => sinceNote >= ThrottleWait]_vars

\* The count a message shows.
ShownCount(m) == IF m.kind = "fetching" THEN 0 ELSE m.n

\* C8: each firing of the throttled update shows one message, for the count
\* at that moment, which is no lower than the count of the message before; and
\* it leaves no call pending, however many were made during the wait.
C8_CoalescedAndCurrent ==
  [][notes' # notes =>
       /\ notes' = Append(notes, ProgressMessage(batch'.numFetched))
       /\ notes # << >> =>
            ShownCount(notes'[Len(notes')]) >= ShownCount(notes[Len(notes)])
       /\ ~thr'.lastArgs]_vars

\* Two callbacks ran during the wait after the first message, and the one
\* message that followed skipped the count between.
C8_Witness ==
  /\ Len(notes) = 2
  /\ ShownCount(notes[1]) = 1
  /\ ShownCount(notes[2]) = RestLen

\* The Session of the running batch has left the registry.
TornDown == batch.pc = "running" /\ sessions # batch.sess

\* C9 as stated: after the teardown of its Session no progress message of the
\* batch is shown.
C9_NoNoteAfterTeardown == [][TornDown => notes' = notes]_vars

\* The tracks a Session holds.
Held(q, cur) == {q[i] : i \in 1..Len(q)} \cup ({cur} \ {None})

\* C10 as stated: the callback of the pipeline adds no track to a Session that
\* has left the registry.
C10_NoEnqueueAfterRemoval ==
  [][(TornDown /\ batch'.delivered # batch.delivered)
       => Held(queue'[batch.sess], current'[batch.sess])
            \subseteq Held(queue[batch.sess], current[batch.sess])]_vars

\* Command p starts in this step: play runs to its first suspension after the
\* registry, or to its end.
PlayStep(p) == cmd[p].pc = "idle" /\ cmd'[p].pc # "idle"

\* C11: whatever the interleaving of the play commands of a guild, a command
\* that reaches the registry creates and registers a Session only when the
\* guild has none, and uses the registered Session otherwise: the registry
\* never holds a second Session for the guild.
C11_OneSessionPerGuild ==
  [][\A p \in Cmds :
       (PlayStep(p) /\ cmd'[p].kind # "rejected") =>
          /\ cmd'[p].sess = sessions'
          /\ (sessions # NoSession) => (sessions' = sessions /\ created' = created)
          /\ (sessions = NoSession) => (sessions' = created' /\ created' = created + 1)]_vars

\* Two commands are suspended in their parsers at the same time, both on the
\* one Session that was created.
C11_Witness ==
  /\ cmd[1].pc = "parsing" /\ cmd[2].pc = "parsing"
  /\ cmd[1].sess = cmd[2].sess /\ cmd[1].sess = sessions
  /\ created = 1

\* The entries of a Session: its current track, then its queue.
Entries(q, cur) == (IF cur = None THEN << >> ELSE << cur >>) \o q

\* The number of times t occurs in q.
Count(q, t) == Cardinality({i \in 1..Len(q) : q[i] = t})

\* q1 and q2 hold the same tracks, each as many times.
SameTracks(q1, q2) ==
  /\ Len(q1) = Len(q2)
  /\ \A i \in 1..Len(q1) : Count(q1, q1[i]) = Count(q2, q1[i])

\* C12: a play command with the shuffle option leaves the current track of
\* its Session the current track, and the Session holds the same tracks
\* after it, each as many times (with the track the command enqueues in the
\* same step, if any).
C12_ShuffleKeepsCurrent ==
  [][\A p \in Cmds :
       (PlayStep(p) /\ cmd'[p].shuffle) =>
          LET s == cmd'[p].sess
              enqueued == IF cmd'[p].kind = "track" THEN cmd'[p].tracks ELSE << >>
          IN  /\ (current[s] # None) => (current'[s] = current[s])
              /\ SameTracks(Entries(queue'[s], current'[s]),
                            Entries(queue[s], current[s]) \o enqueued)]_vars

\* A command without arguments shuffled the Session a track list is played
\* on: the first track is still current, the two queued ones changed places.
C12_Witness ==
  /\ cmd[1].kind = "list" /\ cmd[1].pc = "done"
  /\ cmd[2].kind = "resume" /\ cmd[2].shuffle
  /\ current[cmd[2].sess] = TrackOf(1, 1)
  /\ queue[cmd[2].sess] = << TrackOf(1, 3), TrackOf(1, 2) >>

\* C13: when getVideoDetails settles, with the details or with a failure,
\* enqueue returns a reply (for a failure the 'Could not fetch video details'
\* one) and throws nothing, and the Session's queue and current track are
\* the ones the enqueue left.
C13_DetailsFailureNotFatal ==
  [][\A p \in Cmds :
       (cmd[p].pc = "details" /\ cmd'[p].pc # "details") =>
          /\ cmd'[p].pc = "done"
          /\ cmd'[p].msg.kind \in {"noDetails", "queued", "nowPlayingQueued",
                                   "position", "nowPlaying"}
          /\ queue' = queue
          /\ current' = current]_vars

\* The details of the first track of a list could not be fetched: the command
\* got the degraded reply and all the tracks of the list are on the Session.
C13_Witness ==
  \E p \in Cmds :
    /\ cmd[p].kind = "list" /\ cmd[p].pc = "done"
    /\ cmd[p].msg.kind = "noDetails"
    /\ current[cmd[p].sess] = cmd[p].tracks[1]
    /\ queue[cmd[p].sess] = Tail(cmd[p].tracks)

\* C20 as stated: a play command that enqueues nothing (rejected, or ended
\* with 'Invalid link.' or 'Invalid YouTube link.') leaves the registry as it
\* was.
C20_NothingEnqueuedNothingRegistered ==
  [][\A p \in Cmds :
       (PlayStep(p) /\ cmd'[p].kind \in {"rejected", "invalid"})
          => sessions' = sessions]_vars

\* C14: numFetched never decreases and never exceeds restQueries.length, the
\* number of queries handed to getTracksFromQueries, in whatever order the
\* lookups complete and the callbacks resume.
C14_CountBounded ==
  [][/\ batch'.numFetched >= batch.numFetched
     /\ batch'.numFetched <= RestLen]_vars

\* The lookup of the last query failed and the others found their tracks;
\* every callback has run, and the count is the number of the tracks found.
C14_Witness ==
  /\ AllCounted
  /\ batch.res[RestLen] = "fail" /\ FailedRest = 1
  /\ batch.numFetched = RestLen - 1

\* C15: at most one upstream lookup is made for a Track; a caller gets the
\* result of that lookup, whether it called before, during or after it; and
\* once the details or the failure are cached they stay, with no new lookup.
C15_OneLookupPerTrack ==
  [][/\ lookups' <= 1
     /\ \A c \in Callers : caller'[c] \in {"ok", "fail"} => caller'[c] = details'
     /\ details \in {"ok", "fail"} => (details' = details /\ lookups' = lookups)]_vars

\* The one lookup failed: two callers got the failure, one of them having
\* called during the lookup, and a third is still to resume.
C15_Witness ==
  /\ details = "fail" /\ lookups = 1
  /\ caller[1] = "fail" /\ caller[2] = "fail" /\ caller[3] = "waiting"

\* Some request of pair g has no response yet.
InFlight(g) == requests[g].user = "pending" \/ requests[g].guilds = "pending"

\* While requests are in flight their pair is the stored one.
StoredWhileInFlight ==
  \A g \in 1..Len(requests) : InFlight(g) => discordPromises = g

\* C16: a call that misses the cache while a pair of requests is stored issues
\* no request and awaits the stored pair; and requests in flight are always
\* the stored pair, so that at most one pair is in flight.
C16_RequestsIssuedOnce ==
  [][/\ \A c \in Calls :
          (call[c].pc = "idle" /\ call'[c].pc = "awaiting"
             /\ discordPromises # NoRequests)
            => (requests' = requests /\ call'[c].awaits = discordPromises)
     /\ StoredWhileInFlight']_vars

\* Two calls await the one pair of requests issued, which is in flight.
C16_Witness ==
  /\ Len(requests) = 1 /\ InFlight(1)
  /\ call[1].pc = "awaiting" /\ call[2].pc = "awaiting"
  /\ call[1].awaits = 1 /\ call[2].awaits = 1

\* C17 as stated: when no call is awaiting the requests, discordPromises has
\* no entry for the token.
C17_NoEntryWhenQuiet ==
  (\A c \in Calls : call[c].pc # "awaiting") => discordPromises = NoRequests

\* The calls that received a response message.
Answered == {c \in Chats : chat[c].got}

\* The cached conversation is made of the query and the response of every
\* answered call, the response right after its query, and of nothing else.
ConversationComplete ==
  /\ Len(conversations) = 2 * Cardinality(Answered)
  /\ \A c \in Answered :
       \E i \in 1..(Len(conversations) - 1) :
         conversations[i] = QueryOf(c) /\ conversations[i + 1] = ResponseTo(c)

\* C18: whatever the interleaving of the calls of a user in a guild, the
\* cached conversation holds the query and the response of every call that
\* got a response, each query followed by its response; and a step of a call
\* that got none (rate limited, failed, or answered without a message)
\* leaves the conversation as it was.
C18_NoLostUpdate ==
  [][/\ ConversationComplete'
     /\ \A c \in Chats :
          (chat'[c] # chat[c] /\ ~chat'[c].got) => conversations' = conversations]_vars

\* Two calls read the empty conversation before either was answered; both
\* exchanges are cached, and the third call failed.
C18_Witness ==
  /\ chat[1].sent = << QueryOf(1) >> /\ chat[2].sent = << QueryOf(2) >>
  /\ conversations = << QueryOf(1), ResponseTo(1), QueryOf(2), ResponseTo(2) >>
  /\ chat[3].pc = "failed"

\* C19 as stated: when a command is told 'Queued at position #n' and its
\* track is in the queue, the track is the n-th of the queue.
C19_PositionIsIndex ==
  [][\A p \in Cmds :
       (/\ cmd[p].pc = "details" /\ cmd'[p].pc = "done"
        /\ cmd'[p].msg.kind = "position"
        /\ \E i \in 1..Len(queue[cmd[p].sess]) :
             queue[cmd[p].sess][i] = cmd[p].tracks[1])
         => /\ cmd'[p].msg.n \in 1..Len(queue[cmd[p].sess])
            /\ queue[cmd[p].sess][cmd'[p].msg.n] = cmd[p].tracks[1]]_vars

====
